---- MODULE Spec2Model ----
(***************************************************************************)
(* A model of words.py: the sitemap reader (get_urls_from_sitemap), the    *)
(* page word extractor (process_url), the crawl loop of main over a        *)
(* ThreadPoolExecutor, and the report writer.                              *)
(*                                                                         *)
(* Text is a sequence of one-character strings.  A Counter is a sequence   *)
(* of <<word, count>> pairs with distinct words, in insertion order, as a  *)
(* Python dict keeps it.                                                   *)
(***************************************************************************)
EXTENDS Integers, Sequences, FiniteSets, TLC

(***************************************************************************)
(* Character classes of Python's re module, restricted to the characters   *)
(* the model's texts are written in.                                       *)
(***************************************************************************)
Upper == {"A", "B", "F", "H", "Q", "W"}
Lower == {"a", "b", "c", "d", "e", "i", "j", "k", "l", "m", "n", "o", "p", "r", "s", "u", "w", "x"}
Letter == Upper \cup Lower
Digit == {"1"}
WordChar == Letter \cup Digit \cup {"_"}
Punct == {".", "!", "?"}
Space == {" ", "\n"}

Max(S) == CHOOSE x \in S : \A y \in S : y <= x

(***************************************************************************)
(* re.split(r'(?<=[.!?])\s+', text): the text is cut at every run of       *)
(* whitespace whose first character follows '.', '!' or '?'; the run is    *)
(* dropped, the punctuation stays with the piece before it.                *)
(***************************************************************************)
RECURSIVE SpaceRunEnd(_, _)
SpaceRunEnd(text, p) ==
    IF p + 1 <= Len(text) /\ text[p + 1] \in Space
    THEN SpaceRunEnd(text, p + 1)
    ELSE p

RECURSIVE SplitFrom(_, _, _)
SplitFrom(text, start, pos) ==
    IF pos > Len(text)
    THEN << SubSeq(text, start, Len(text)) >>
    ELSE IF pos > 1 /\ text[pos - 1] \in Punct /\ text[pos] \in Space
         THEN LET e == SpaceRunEnd(text, pos)
              IN  << SubSeq(text, start, pos - 1) >> \o SplitFrom(text, e + 1, e + 1)
         ELSE SplitFrom(text, start, pos + 1)

re_split(text) == SplitFrom(text, 1, 1)

(***************************************************************************)
(* re.findall(r"\b[A-Z][a-zA-Z]{2,}\b", sentence): scan from the left; at  *)
(* each position try \b, one upper-case letter, then greedily two or more  *)
(* letters, backtracking to the longest end that is followed by \b; a      *)
(* match is emitted and the scan resumes after it.                         *)
(***************************************************************************)
IsWordAt(s, p) == p >= 1 /\ p <= Len(s) /\ s[p] \in WordChar

\* \b between s[p-1] and s[p]
WordBoundary(s, p) == IsWordAt(s, p - 1) # IsWordAt(s, p)

RECURSIVE LetterRunEnd(_, _)
LetterRunEnd(s, p) ==
    IF p + 1 <= Len(s) /\ s[p + 1] \in Letter
    THEN LetterRunEnd(s, p + 1)
    ELSE p

\* the end of the match that starts at pos, or 0 when there is none
MatchAt(s, pos) ==
    IF WordBoundary(s, pos) /\ s[pos] \in Upper
    THEN LET g    == LetterRunEnd(s, pos)
             ends == {e \in (pos + 2)..g : WordBoundary(s, e + 1)}
         IN  IF ends = {} THEN 0 ELSE Max(ends)
    ELSE 0

RECURSIVE FindFrom(_, _)
FindFrom(s, pos) ==
    IF pos > Len(s)
    THEN << >>
    ELSE LET m == MatchAt(s, pos)
         IN  IF m > 0
             THEN << SubSeq(s, pos, m) >> \o FindFrom(s, m + 1)
             ELSE FindFrom(s, pos + 1)

re_findall(sentence) == FindFrom(sentence, 1)

(***************************************************************************)
(* collections.Counter                                                     *)
(***************************************************************************)
EmptyCounter == << >>

CounterKeys(c) == {c[k][1] : k \in 1..Len(c)}

\* c[w], 0 for a missing word
CounterGet(c, w) ==
    IF \E k \in 1..Len(c) : c[k][1] = w
    THEN c[CHOOSE k \in 1..Len(c) : c[k][1] = w][2]
    ELSE 0

\* c[w] = n: in place for a word already present, appended otherwise
CounterSet(c, w, n) ==
    IF \E k \in 1..Len(c) : c[k][1] = w
    THEN [k \in 1..Len(c) |-> IF c[k][1] = w THEN << w, n >> ELSE c[k]]
    ELSE Append(c, << w, n >>)

\* counter[word] += 1
CounterIncr(c, w) == CounterSet(c, w, CounterGet(c, w) + 1)

\* for word in words: counter[word] += 1
RECURSIVE CountWords(_, _)
CountWords(counter, words) ==
    IF words = << >>
    THEN counter
    ELSE CountWords(CounterIncr(counter, words[1]), Tail(words))

\* every word of the sentence is counted
CountedWordsAll(words) == words

\* words[1:]
CountedWords(words) == SubSeq(words, 2, Len(words))

\* for sentence in sentences[k:]: ... counter[word] += 1
RECURSIVE CountSentences(_, _, _)
CountSentences(counter, sentences, k) ==
    IF k > Len(sentences)
    THEN counter
    ELSE CountSentences(
             CountWords(counter, CountedWords(re_findall(sentences[k]))),
             sentences, k + 1)

\* the body of process_url after the page text is extracted
count_text(text) == CountSentences(EmptyCounter, re_split(text), 1)

(***************************************************************************)
(* Counter.update(partial), one item of partial.items() at a time:         *)
(* self[elem] = count + self.get(elem, 0)                                  *)
(***************************************************************************)
\* dict.update in place of Counter.update: the count is overwritten
update_item_overwrite(total, item) == CounterSet(total, item[1], item[2])

update_item(total, item) == CounterSet(total, item[1], item[2] + CounterGet(total, item[1]))

RECURSIVE update_from(_, _, _)
update_from(total, partial, k) ==
    IF k > Len(partial)
    THEN total
    ELSE update_from(update_item(total, partial[k]), partial, k + 1)

Counter_update(total, partial) == update_from(total, partial, 1)

(***************************************************************************)
(* Counter.most_common(): sorted(items, key=count, reverse=True), a stable *)
(* sort, so entries of equal count stay in insertion order.                *)
(***************************************************************************)
\* does x go before y when x was inserted before y
SortsBefore(x, y) == x[2] >= y[2]

\* insert item x, which comes after everything in sorted, at its place
RECURSIVE InsertSorted(_, _)
InsertSorted(sorted, x) ==
    IF sorted = << >>
    THEN << x >>
    ELSE IF SortsBefore(sorted[Len(sorted)], x)
         THEN Append(sorted, x)
         ELSE Append(InsertSorted(SubSeq(sorted, 1, Len(sorted) - 1), x), sorted[Len(sorted)])

RECURSIVE SortFrom(_, _, _)
SortFrom(sorted, items, k) ==
    IF k > Len(items)
    THEN sorted
    ELSE SortFrom(InsertSorted(sorted, items[k]), items, k + 1)

most_common(counter) == SortFrom(<< >>, counter, 1)

(***************************************************************************)
(* get_urls_from_sitemap.  A response to the sitemap request is a failed   *)
(* request ("error"), a body that is not XML ("malformed") or a document   *)
(* ("xml"), given by the descendants of its root in document order; an     *)
(* element's text is << >> when the element has none (ElementTree: None).  *)
(***************************************************************************)
SitemapLoc == "{http://www.sitemaps.org/schemas/sitemap/0.9}loc"

\* str.strip()
RECURSIVE lstrip(_)
lstrip(s) == IF s # << >> /\ s[1] \in Space THEN lstrip(Tail(s)) ELSE s

RECURSIVE rstrip(_)
rstrip(s) ==
    IF s # << >> /\ s[Len(s)] \in Space THEN rstrip(SubSeq(s, 1, Len(s) - 1)) ELSE s

strip(s) == rstrip(lstrip(s))

\* root.findall('.//{...}loc')
findall_loc(elems) == SelectSeq(elems, LAMBDA el : el.tag = SitemapLoc)

\* the filter of the comprehension: if loc.text
LocKept(loc) == loc.text # << >>

\* [loc.text.strip() for loc in locs if loc.text]
RECURSIVE StripAll(_)
StripAll(locs) ==
    IF locs = << >>
    THEN << >>
    ELSE IF LocKept(locs[1])
         THEN << strip(locs[1].text) >> \o StripAll(Tail(locs))
         ELSE StripAll(Tail(locs))

get_urls_from_sitemap(resp) ==
    IF resp.kind = "xml"
    THEN StripAll(findall_loc(resp.elems))
    ELSE << >>

\* ET.ParseError is not caught and leaves main
sitemap_pc_uncaught(resp) == IF resp.kind = "malformed" THEN "exited" ELSE "sitemaps"

\* where main goes when get_urls_from_sitemap is over: the RequestException and
\* the ParseError are caught inside it, so main stays in its loop over the sitemaps
sitemap_pc(resp) == "sitemaps"

(***************************************************************************)
(* process_url.  A response to the page request is a failed request        *)
(* ("error"), a page on which the processing raises something that is not  *)
(* a RequestException ("raise"), or the text of the page ("text").  The    *)
(* outcome of the unit is what its future holds: an exception or a         *)
(* Counter.                                                                *)
(***************************************************************************)
Returned(counter) == [exc |-> FALSE, value |-> counter]
Raised == [exc |-> TRUE, value |-> EmptyCounter]

\* the RequestException is not caught
FetchFailedRaises == Raised

\* except requests.RequestException: return Counter()
FetchFailed == Returned(EmptyCounter)

process_url(resp) ==
    IF resp.kind = "error"
    THEN FetchFailed
    ELSE IF resp.kind = "raise"
         THEN Raised
         ELSE Returned(count_text(resp.text))

\* the worker merges its own result into the shared Counter
total_counter_merged_by_worker(total, result) == Counter_update(total, result.value)

\* what a run of process_url does to main's total_counter: it has no access to it
total_counter_after_process_url(total, result) == total

\* no except clause: the exception leaves main
result_pc_uncaught(result) == IF result.exc THEN "exited" ELSE "update"

\* the progress line is written only when the result was merged
result_pc_no_progress(result) == IF result.exc THEN "as_completed" ELSE "update"

\* where main goes with the result of a future: future.result() returns and
\* Counter.update runs, or it raises and except Exception logs the error
result_pc(result) == IF result.exc THEN "progress" ELSE "update"

(***************************************************************************)
(* Environments.  The answers are drawn from small sets.                   *)
(***************************************************************************)
SitemapError == [kind |-> "error", elems |-> << >>]
SitemapMalformed == [kind |-> "malformed", elems |-> << >>]
Xml(elems) == [kind |-> "xml", elems |-> elems]
Elem(tag, text) == [tag |-> tag, text |-> text]

PageError == [kind |-> "error", text |-> << >>]
PageRaise == [kind |-> "raise", text |-> << >>]
Page(text) == [kind |-> "text", text |-> text]

\* "Aaa Bab Baa", "Aaa Baa Bab", "Aaa Baa. Aaa Baa Baa"
TextBabBaa == << "A", "a", "a", " ", "B", "a", "b", " ", "B", "a", "a" >>
TextBaaBab == << "A", "a", "a", " ", "B", "a", "a", " ", "B", "a", "b" >>
TextBaa3 == << "A", "a", "a", " ", "B", "a", "a", ".", " ", "A", "a", "a", " ", "B", "a", "a", " ", "B", "a", "a" >>

\* <urlset><url><loc> a</loc></url><url><loc>b\n</loc></url></urlset>
SitemapAB ==
    Xml(<< Elem("{http://www.sitemaps.org/schemas/sitemap/0.9}url", << >>),
           Elem(SitemapLoc, << " ", "a" >>),
           Elem("{http://www.sitemaps.org/schemas/sitemap/0.9}url", << >>),
           Elem(SitemapLoc, << "b", "\n" >>) >>)

\* <urlset><url><loc>a</loc></url><url><loc/></url></urlset>
SitemapA ==
    Xml(<< Elem("{http://www.sitemaps.org/schemas/sitemap/0.9}url", << >>),
           Elem(SitemapLoc, << "a" >>),
           Elem("{http://www.sitemaps.org/schemas/sitemap/0.9}url", << >>),
           Elem(SitemapLoc, << >>) >>)

SiteWeb ==
    [sitemaps |-> << {SitemapError, SitemapMalformed, SitemapAB},
                     {SitemapError, SitemapMalformed, SitemapA} >>,
     pages    |-> {PageError, PageRaise, Page(TextBabBaa), Page(TextBaaBab), Page(TextBaa3)},
     disk     |-> {-1, 0, 1},
     stdin    |-> {"line", "eof"}]

\* one page whose text is a concatenation of at most MaxPieces pieces, or one
\* of the texts named above
MaxPieces == 4

Pieces ==
    { << "A" >>, << "a" >>, << "1" >>, << "." >>, << " " >>,
      << "A", "a", "a" >>, << " ", "B", "a", "b" >>, << "?", "\n" >> }

RECURSIVE Flatten(_)
Flatten(ps) == IF ps = << >> THEN << >> ELSE ps[1] \o Flatten(Tail(ps))

\* "Hello World. Quick Brown Fox jumps."
TextExample ==
    << "H", "e", "l", "l", "o", " ", "W", "o", "r", "l", "d", ".", " ", "Q", "u", "i", "c", "k", " ", "B", "r", "o", "w", "n", " ", "F", "o", "x", " ", "j", "u", "m", "p", "s", "." >>

ExtractTexts ==
    {Flatten(ps) : ps \in UNION {[1..n -> Pieces] : n \in 0..MaxPieces}}
        \cup {TextExample, TextBabBaa, TextBaaBab, TextBaa3}

ExtractWeb ==
    [sitemaps |-> << {Xml(<< Elem(SitemapLoc, << "a" >>) >>)}, {SitemapError} >>,
     pages    |-> {Page(t) : t \in ExtractTexts},
     disk     |-> {-1},
     stdin    |-> {"line"}]

\* a first sitemap of at most MaxElems elements
MaxElems == 2

ElemTags == {SitemapLoc, "loc", "{http://www.sitemaps.org/schemas/sitemap/0.9}url"}
ElemTexts == {<< >>, << "a" >>, << " " >>, << " ", "b", "\n" >>}
Elems == {Elem(tag, text) : tag \in ElemTags, text \in ElemTexts}

SitemapDocs == {Xml(els) : els \in UNION {[1..n -> Elems] : n \in 0..MaxElems}}

SitemapWeb ==
    [sitemaps |-> << SitemapDocs \cup {SitemapError, SitemapMalformed},
                     {SitemapError, SitemapA} >>,
     pages    |-> {Page(TextBabBaa)},
     disk     |-> {-1},
     stdin    |-> {"line"}]

\* more pages than the executor has workers: PoolUrls URLs in the first sitemap
PoolUrls == 11

\* "Aaa Bab"
TextBab == << "A", "a", "a", " ", "B", "a", "b" >>

PoolWeb ==
    [sitemaps |-> << {Xml([k \in 1..PoolUrls |-> Elem(SitemapLoc, << "a" >>)])},
                     {SitemapError} >>,
     pages    |-> {Page(TextBab)},
     disk     |-> {-1},
     stdin    |-> {"line"}]

Environment(name) ==
    CASE name = "site" -> SiteWeb
      [] name = "extract" -> ExtractWeb
      [] name = "sitemap" -> SitemapWeb
      [] name = "pool" -> PoolWeb

(***************************************************************************)
(* The configuration of main                                               *)
(***************************************************************************)
\* len(sitemap_urls)
NumSitemaps == 2

\* ThreadPoolExecutor(max_workers=10)
max_workers == 10

(***************************************************************************)
(* The state.  web names the environment (see Environment below): what     *)
(* each sitemap request and a page request can be answered with, whether   *)
(* the output file can be written and what the standard input holds.  The  *)
(* rest is the state of main and of the executor's futures.                *)
(***************************************************************************)
VARIABLES
    web,            \* the name of the environment the program runs in
    pc,             \* where main is
    sm,             \* the sitemap the loop of line 83 is at
    resps,          \* the responses the sitemap requests got so far
    all_urls,
    total,
    fut,            \* futures, in submission order: [url, state, resp, result]
    yielded,        \* the futures as_completed has yielded, in order
    idx,
    pos,            \* Counter.update: the item of the partial result it is at
    total_counter,
    log,            \* the progress lines: [idx, total, url]
    out_file,       \* the lines written to word_counts.txt
    exit_code

vars == << web, pc, sm, resps, all_urls, total, fut, yielded, idx, pos,
           total_counter, log, out_file, exit_code >>

Units == 1..Len(fut)
Pending == {i \in Units : fut[i].state = "pending"}
Running == {i \in Units : fut[i].state = "running"}
Finished == {i \in Units : fut[i].state = "finished"}
YieldedSet == {yielded[k] : k \in 1..Len(yielded)}

NoResp == [kind |-> "none", text |-> << >>]

InitWith(w) ==
    /\ web = w
    /\ pc = "sitemaps"
    /\ sm = 1
    /\ resps = << >>
    /\ all_urls = << >>
    /\ total = 0
    /\ fut = << >>
    /\ yielded = << >>
    /\ idx = 0
    /\ pos = 0
    /\ total_counter = EmptyCounter
    /\ log = << >>
    /\ out_file = << >>
    /\ exit_code = -1

(***************************************************************************)
(* main, lines 82-84: one sitemap is read and its URLs are appended        *)
(***************************************************************************)
ReadSitemap ==
    /\ pc = "sitemaps"
    /\ sm <= NumSitemaps
    /\ \E resp \in Environment(web).sitemaps[sm] :
          /\ resps' = Append(resps, resp)
          /\ all_urls' = all_urls \o get_urls_from_sitemap(resp)
          /\ pc' = sitemap_pc(resp)
    /\ sm' = sm + 1
    /\ UNCHANGED << web, total, fut, yielded, idx, pos, total_counter, log,
                    out_file, exit_code >>

(***************************************************************************)
(* main, lines 86-91: every URL is submitted to the executor; the futures  *)
(* wait in the executor's queue                                            *)
(***************************************************************************)
\* a dict keyed by URL, {url: future}: a URL that occurs again replaces its future
RECURSIVE submitted_once(_)
submitted_once(urls) ==
    IF urls = << >>
    THEN << >>
    ELSE LET rest == submitted_once(SubSeq(urls, 1, Len(urls) - 1))
             last == urls[Len(urls)]
         IN  IF \E k \in 1..Len(rest) : rest[k] = last THEN rest ELSE Append(rest, last)

\* the URLs of the futures of the dict, {executor.submit(...): url for url in
\* all_urls}: one future for every element of the list
submitted(urls) == urls

Submit ==
    /\ pc = "sitemaps"
    /\ sm > NumSitemaps
    /\ total' = Len(all_urls)
    /\ total_counter' = EmptyCounter
    /\ fut' = [i \in 1..Len(submitted(all_urls)) |->
                  [url |-> submitted(all_urls)[i], state |-> "pending", resp |-> NoResp,
                   result |-> Returned(EmptyCounter)]]
    /\ pc' = "as_completed"
    /\ UNCHANGED << web, sm, resps, all_urls, yielded, idx, pos, log, out_file, exit_code >>

(***************************************************************************)
(* The executor: a free worker takes the oldest future of the queue        *)
(***************************************************************************)
\* one worker too many
WorkerFreeOffByOne == Cardinality(Running) <= max_workers

WorkerFree == Cardinality(Running) < max_workers

Start(i) ==
    /\ i \in Pending
    /\ \A j \in Pending : i <= j
    /\ WorkerFree
    /\ fut' = [fut EXCEPT ![i].state = "running"]
    /\ UNCHANGED << web, pc, sm, resps, all_urls, total, yielded, idx, pos,
                    total_counter, log, out_file, exit_code >>

(***************************************************************************)
(* A worker runs process_url(url, session) to its end                      *)
(***************************************************************************)
Finish(i) ==
    /\ i \in Running
    /\ \E resp \in Environment(web).pages :
          /\ fut' = [fut EXCEPT ![i].state = "finished", ![i].resp = resp,
                                ![i].result = process_url(resp)]
          /\ total_counter' = total_counter_after_process_url(total_counter, process_url(resp))
    /\ UNCHANGED << web, pc, sm, resps, all_urls, total, yielded, idx, pos,
                    log, out_file, exit_code >>

(***************************************************************************)
(* main, lines 92-97: as_completed yields a finished future; its result    *)
(* is taken, and Counter.update starts on it unless it raises              *)
(***************************************************************************)
NextCompleted(i) ==
    /\ pc = "as_completed"
    /\ i \in Finished \ YieldedSet
    /\ yielded' = Append(yielded, i)
    /\ idx' = idx + 1
    /\ pc' = result_pc(fut[i].result)
    /\ pos' = IF pc' = "update" THEN 1 ELSE 0
    /\ UNCHANGED << web, sm, resps, all_urls, total, fut, total_counter, log,
                    out_file, exit_code >>

\* the future the loop body is at
Current == yielded[Len(yielded)]

(***************************************************************************)
(* main, line 95: Counter.update adds one item of the partial result       *)
(***************************************************************************)
UpdateItem ==
    /\ pc = "update"
    /\ pos <= Len(fut[Current].result.value)
    /\ total_counter' = update_item(total_counter, fut[Current].result.value[pos])
    /\ pos' = pos + 1
    /\ UNCHANGED << web, pc, sm, resps, all_urls, total, fut, yielded, idx, log,
                    out_file, exit_code >>

UpdateDone ==
    /\ pc = "update"
    /\ pos > Len(fut[Current].result.value)
    /\ pc' = "progress"
    /\ pos' = 0
    /\ UNCHANGED << web, sm, resps, all_urls, total, fut, yielded, idx,
                    total_counter, log, out_file, exit_code >>

(***************************************************************************)
(* main, lines 98-99: the percentage, idx / total, and the progress line;  *)
(* the division raises ZeroDivisionError when total is 0                   *)
(***************************************************************************)
\* the loop is left as_completed only once a future was yielded
ExhaustedNonEmpty == YieldedSet = Units /\ yielded # << >>

Progress ==
    /\ pc = "progress"
    /\ IF total = 0
       THEN /\ log' = log
            /\ pc' = "exited"
            /\ exit_code' = 1
       ELSE /\ log' = Append(log, [idx |-> idx, total |-> total, url |-> fut[Current].url])
            /\ pc' = "as_completed"
            /\ exit_code' = exit_code
    /\ UNCHANGED << web, sm, resps, all_urls, total, fut, yielded, idx, pos,
                    total_counter, out_file >>

(***************************************************************************)
(* as_completed is exhausted: the loop and the with blocks are left        *)
(***************************************************************************)
\* the loop is left as soon as no future is waiting in the queue
ExhaustedEarly == Pending = {}

\* as_completed has yielded every future of the dict
Exhausted == YieldedSet = Units

LoopExit ==
    /\ pc = "as_completed"
    /\ Exhausted
    /\ pc' = "write"
    /\ UNCHANGED << web, sm, resps, all_urls, total, fut, yielded, idx, pos,
                    total_counter, log, out_file, exit_code >>

(***************************************************************************)
(* main, lines 102-110: the report.  A disk answer n is the number of      *)
(* lines that can be written before an IOError; -1 is no error.            *)
(***************************************************************************)
WriteReport ==
    /\ pc = "write"
    /\ \E n \in Environment(web).disk :
          LET lines == most_common(total_counter)
          IN  IF n < 0 \/ n > Len(lines)
              THEN /\ out_file' = lines
                   /\ pc' = "input"
                   /\ exit_code' = exit_code
              ELSE /\ out_file' = SubSeq(lines, 1, n)
                   /\ pc' = "exited"
                   /\ exit_code' = 1
    /\ UNCHANGED << web, sm, resps, all_urls, total, fut, yielded, idx, pos,
                    total_counter, log >>

(***************************************************************************)
(* main, line 113: input() returns a line and the process ends, or it      *)
(* raises EOFError at the end of the input and no handler is there         *)
(***************************************************************************)
Input ==
    /\ pc = "input"
    /\ pc' = "exited"
    /\ \E answer \in Environment(web).stdin :
          exit_code' = IF answer = "line" THEN 0 ELSE 1
    /\ UNCHANGED << web, sm, resps, all_urls, total, fut, yielded, idx, pos,
                    total_counter, log, out_file >>

Next ==
    \/ ReadSitemap
    \/ Submit
    \/ \E i \in Units : Start(i)
    \/ \E i \in Units : Finish(i)
    \/ \E i \in Units : NextCompleted(i)
    \/ UpdateItem
    \/ UpdateDone
    \/ Progress
    \/ LoopExit
    \/ WriteReport
    \/ Input

Init == InitWith("site")

Spec == Init /\ [][Next]_vars

(***************************************************************************)
(* The crawl of one page whose text is drawn from a bounded set: the       *)
(* concatenations of at most MaxPieces pieces, and the texts named above   *)
(***************************************************************************)
InitExtract == InitWith("extract")

SpecExtract == InitExtract /\ [][Next]_vars

(***************************************************************************)
(* The crawl after a first sitemap drawn from a bounded set: the documents *)
(* of at most MaxElems elements                                            *)
(***************************************************************************)
InitSitemap == InitWith("sitemap")

SpecSitemap == InitSitemap /\ [][Next]_vars

(***************************************************************************)
(* The crawl of more pages than the executor has workers: PoolUrls URLs    *)
(* in the first sitemap                                                    *)
(***************************************************************************)
InitPool == InitWith("pool")

\* the executor and its workers; main's loop only reads the futures
NextExecutor ==
    \/ ReadSitemap
    \/ Submit
    \/ \E i \in Units : Start(i)
    \/ \E i \in Units : Finish(i)

SpecPool == InitPool /\ [][NextExecutor]_vars

(***************************************************************************)
(* Properties of the crawl                                                 *)
(***************************************************************************)
\* main has left the crawl loop
AfterLoop == pc \in {"write", "input", "exited"}

\* every word some Counter of the state holds
Words ==
    CounterKeys(total_counter)
        \cup UNION {CounterKeys(fut[i].result.value) : i \in Units}

\* the sum of the counts of w over the results of the units 1..n that are in S
RECURSIVE SumOfResults(_, _, _)
SumOfResults(w, S, n) ==
    IF n = 0
    THEN 0
    ELSE (IF n \in S THEN CounterGet(fut[n].result.value, w) ELSE 0)
            + SumOfResults(w, S, n - 1)

ReturnedUnits == {i \in Units : ~fut[i].result.exc}

\* C1: when the crawl loop has ended, the count of every word in the global
\* WordCount is the sum of its counts in the WordCounts process_url returned
\* for the submitted units, whatever the order in which the units completed.
C1_GlobalIsSum ==
    AfterLoop =>
        /\ Len(fut) = Len(all_urls)
        /\ \A w \in Words :
              CounterGet(total_counter, w) = SumOfResults(w, ReturnedUnits, Len(fut))

\* three units returned counts with a word in common and were merged in an
\* order that is not the order of submission
C1_Witness ==
    /\ pc = "write"
    /\ Len(fut) = 3
    /\ yielded[1] = 3
    /\ \A i \in Units : ~fut[i].result.exc /\ Len(fut[i].result.value) = 2
    /\ fut[1].result.value # fut[2].result.value
    /\ \E w \in Words : CounterGet(total_counter, w) = 3

\* the step of the loop that takes a future whose result raises
TakesRaised ==
    /\ pc = "as_completed"
    /\ Len(yielded') = Len(yielded) + 1
    /\ fut[yielded'[Len(yielded')]].result.exc

\* C2: when the result of a unit raises, main leaves the global WordCount as it
\* is and goes on to the progress line; the loop is left only when every unit
\* has been consumed, and the global WordCount then holds the counts of every
\* unit that returned.
C2_ErrorIsContained ==
    /\ [][TakesRaised => (total_counter' = total_counter /\ pc' = "progress")]_vars
    /\ [](AfterLoop =>
             /\ YieldedSet = Units
             /\ \A w \in Words :
                   CounterGet(total_counter, w) = SumOfResults(w, ReturnedUnits, Len(fut)))

\* a unit raised, and a unit consumed after it was merged
C2_Witness ==
    /\ pc = "write"
    /\ \E k \in 1..(Len(yielded) - 1) :
          /\ fut[yielded[k]].result.exc
          /\ fut[yielded[k + 1]].result.value # EmptyCounter
    /\ total_counter # EmptyCounter

FetchedUnits == {i \in Units : fut[i].resp.kind # "error"}

\* C3: a unit whose fetch failed holds an empty WordCount, not an exception,
\* and the global WordCount after the loop is the sum of the counts of the
\* units whose fetch did not fail.
C3_FailedFetchIsEmpty ==
    /\ \A i \in Finished :
          fut[i].resp.kind = "error" => fut[i].result = Returned(EmptyCounter)
    /\ AfterLoop =>
          \A w \in Words :
             CounterGet(total_counter, w) = SumOfResults(w, FetchedUnits, Len(fut))

\* of three pages one failed and two were counted
C3_Witness ==
    /\ pc = "write"
    /\ Len(fut) = 3
    /\ Cardinality(Units \ FetchedUnits) = 1
    /\ \A i \in FetchedUnits : fut[i].result.value # EmptyCounter
    /\ total_counter # EmptyCounter

\* C5: the global WordCount changes only in a step of main's Counter.update,
\* by one item of the partial result of the future main is at; a step of a
\* worker (one that changes a future) leaves the global WordCount, and
\* where main and its update are, as they are.
C5_SingleMerger ==
    [][/\ total_counter' # total_counter =>
             /\ pc = "update"
             /\ fut' = fut
             /\ yielded' = yielded
             /\ pos' = pos + 1
             /\ total_counter' = update_item(total_counter, fut[Current].result.value[pos])
       /\ fut' # fut /\ pc # "sitemaps" =>
             /\ total_counter' = total_counter
             /\ << pc, pos, yielded, idx >>' = << pc, pos, yielded, idx >>]_vars

\* main is in the middle of an update while a worker is running process_url
C5_Witness ==
    /\ pc = "update"
    /\ pos = 2
    /\ total_counter # EmptyCounter
    /\ Running # {}
    /\ \E i \in Finished \ YieldedSet : fut[i].result.value # EmptyCounter

\* C6: once main is at the writing of the report, every submitted unit has
\* finished and has been consumed by the loop, no update is under way, and
\* the global WordCount does not change any more; lines are in the file only
\* after that.
C6_ReportAfterCrawl ==
    /\ [](AfterLoop =>
             /\ Len(fut) = Len(all_urls)
             /\ Finished = Units
             /\ YieldedSet = Units
             /\ pos = 0
             /\ Len(log) = Len(fut))
    /\ [](out_file # << >> => pc \in {"input", "exited"})
    /\ [][AfterLoop => (AfterLoop' /\ total_counter' = total_counter /\ fut' = fut)]_vars

\* a report with lines was written after three units were merged
C6_Witness ==
    /\ pc = "input"
    /\ Len(fut) = 3
    /\ Len(out_file) = 2
    /\ \E i \in Units : fut[i].result.exc

\* C7: the k-th progress line reports k of total and the URL of the k-th
\* unit as_completed yielded; a line is there for every unit consumed, raised
\* or not, no unit is consumed twice, and after the loop the last line is
\* total of total.
C7_Progress ==
    /\ Len(log) <= total
    /\ \A k \in 1..Len(log) :
          log[k] = [idx |-> k, total |-> Len(all_urls), url |-> all_urls[yielded[k]]]
    /\ \A k, l \in 1..Len(yielded) : yielded[k] = yielded[l] => k = l
    /\ Len(log) = IF pc \in {"update", "progress"} THEN Len(yielded) - 1 ELSE Len(yielded)
    /\ idx = Len(yielded)
    /\ AfterLoop => Len(log) = total /\ Len(all_urls) = total

\* three progress lines, out of submission order, one of them for a unit that raised
C7_Witness ==
    /\ pc = "write"
    /\ Len(log) = 3
    /\ log[3] = [idx |-> 3, total |-> 3, url |-> << "a" >>]
    /\ log[1].url = << "b" >>
    /\ fut[yielded[2]].result.exc

\* the global Counter main ends with when as_completed yields the futures in
\* the given order
RECURSIVE MergedInOrder(_, _)
MergedInOrder(order, k) ==
    IF k = 0
    THEN EmptyCounter
    ELSE Counter_update(MergedInOrder(order, k - 1), fut[order[k]].result.value)

Descending(lines) == \A k \in 1..(Len(lines) - 1) : lines[k][2] >= lines[k + 1][2]

\* C9: the lines of the report are in descending order of count, and the
\* report does not depend on the order in which the units completed: for the
\* results the units of this crawl produced, every order of completion ends
\* with the lines that were written.
C9_ReportReproducible ==
    pc = "input" =>
        /\ Descending(out_file)
        /\ \A order \in Permutations(Units) :
              most_common(MergedInOrder(order, Len(fut))) = out_file

(***************************************************************************)
(* Properties of the executor                                              *)
(***************************************************************************)
\* C4: at most max_workers units are running process_url at any moment; every
\* URL has its future, a unit leaves the queue only for a free worker and in
\* the order of submission, and none is dropped: when nothing is queued or
\* running any more, every unit has finished.
C4_BoundedWorkers ==
    /\ [](Cardinality(Running) <= max_workers)
    /\ [](pc # "sitemaps" =>
             /\ Len(fut) = Len(all_urls)
             /\ \A i \in Units : fut[i].url = all_urls[i]
             /\ \A i \in Pending : \A j \in Units : j > i => j \in Pending
             /\ (Pending = {} /\ Running = {} => Finished = Units))
    /\ [][\A i \in Units :
             (i \in Pending /\ fut'[i].state # "pending") =>
                 /\ fut'[i].state = "running"
                 /\ Cardinality(Running) < max_workers]_vars

\* every worker is busy and a unit waits in the queue
C4_Witness ==
    /\ Cardinality(Running) = max_workers
    /\ Pending # {}
    /\ Len(fut) > max_workers

(***************************************************************************)
(* Properties of process_url                                               *)
(***************************************************************************)
\* is position q of the text in a run of whitespace that follows '.', '!' or '?'
InBoundary(t, q) ==
    /\ t[q] \in Space
    /\ \E p \in 2..q : t[p - 1] \in Punct /\ \A r \in p..q : t[r] \in Space

\* the sentences: the longest stretches <<a, b>> of the text without a boundary
SentenceSpans(t) ==
    {sp \in (1..Len(t)) \X (1..Len(t)) :
        /\ sp[1] <= sp[2]
        /\ \A r \in sp[1]..sp[2] : ~InBoundary(t, r)
        /\ sp[1] = 1 \/ InBoundary(t, sp[1] - 1)
        /\ sp[2] = Len(t) \/ InBoundary(t, sp[2] + 1)}

\* the qualifying tokens <<i, j>> of the sentence sp: an upper-case letter and
\* two or more letters, with no word character before or after in the sentence
TokenSpans(t, sp) ==
    {tk \in (sp[1]..sp[2]) \X (sp[1]..sp[2]) :
        /\ tk[2] >= tk[1] + 2
        /\ t[tk[1]] \in Upper
        /\ \A r \in (tk[1] + 1)..tk[2] : t[r] \in Letter
        /\ tk[1] = sp[1] \/ t[tk[1] - 1] \notin WordChar
        /\ tk[2] = sp[2] \/ t[tk[2] + 1] \notin WordChar}

\* the tokens of the sentence after its first
LaterTokens(t, sp) ==
    {tk \in TokenSpans(t, sp) : \E first \in TokenSpans(t, sp) : first[1] < tk[1]}

AllLaterTokens(t) == UNION {LaterTokens(t, sp) : sp \in SentenceSpans(t)}

RECURSIVE SumCounts(_)
SumCounts(c) == IF c = << >> THEN 0 ELSE c[1][2] + SumCounts(Tail(c))

CountsLaterTokens(t, c) ==
    /\ \A w \in CounterKeys(c) \cup {SubSeq(t, tk[1], tk[2]) : tk \in AllLaterTokens(t)} :
          CounterGet(c, w)
              = Cardinality({tk \in AllLaterTokens(t) : SubSeq(t, tk[1], tk[2]) = w})
    /\ \A k, l \in 1..Len(c) : c[k][1] = c[l][1] => k = l
    /\ \A sp \in SentenceSpans(t) :
          Cardinality(LaterTokens(t, sp))
              = IF Cardinality(TokenSpans(t, sp)) >= 2
                THEN Cardinality(TokenSpans(t, sp)) - 1
                ELSE 0
    /\ SumCounts(c) = Cardinality(AllLaterTokens(t))

World == << "W", "o", "r", "l", "d" >>
Brown == << "B", "r", "o", "w", "n" >>
Fox == << "F", "o", "x" >>

TrimmedLocs(resp) ==
    LET locs    == SelectSeq(resp.elems, LAMBDA el : el.tag = SitemapLoc)
        trimmed == [k \in 1..Len(locs) |-> strip(locs[k].text)]
    IN  SelectSeq(trimmed, LAMBDA u : u # << >>)

\* C10: reading a sitemap that was fetched and parsed appends exactly the
\* trimmed, non-empty texts of its loc elements, in document order; no URL
\* of the list is the empty string.
C10_SitemapUrls ==
    /\ [][(Len(resps') = Len(resps) + 1 /\ resps'[Len(resps')].kind = "xml") =>
             all_urls' = all_urls \o TrimmedLocs(resps'[Len(resps')])]_vars
    /\ [](\A k \in 1..Len(all_urls) : all_urls[k] # << >>)

(***************************************************************************)
(* Properties of main's reading of the sitemaps                            *)
(***************************************************************************)
\* the URLs of the sitemaps among the first n responses that were fetched and parsed
RECURSIVE UrlsOfParsed(_, _)
UrlsOfParsed(rs, n) ==
    IF n = 0
    THEN << >>
    ELSE UrlsOfParsed(rs, n - 1)
            \o (IF rs[n].kind = "xml" THEN StripAll(findall_loc(rs[n].elems)) ELSE << >>)

\* the step of main that reads a sitemap whose fetch fails or whose body is malformed
ReadsFailedSitemap ==
    /\ Len(resps') = Len(resps) + 1
    /\ resps'[Len(resps')].kind \in {"error", "malformed"}

\* C11: a sitemap whose fetch fails or whose body is malformed adds no URL and
\* raises nothing: main goes on with the next sitemap, every sitemap is read
\* before the crawl, and the URLs of the sitemaps that were parsed are all
\* submitted and consumed.
C11_SitemapFailureIsContained ==
    /\ [][ReadsFailedSitemap =>
             /\ all_urls' = all_urls
             /\ pc' = "sitemaps"
             /\ sm' = sm + 1
             /\ exit_code' = exit_code]_vars
    /\ [](pc # "sitemaps" => Len(resps) = NumSitemaps)
    /\ [](all_urls = UrlsOfParsed(resps, Len(resps)))
    /\ [](AfterLoop =>
             /\ Len(fut) = Len(all_urls)
             /\ \A i \in Units : fut[i].url = all_urls[i]
             /\ YieldedSet = Units)

\* the first sitemap was malformed, the second was read and its page counted
C11_Witness ==
    /\ pc = "write"
    /\ resps[1].kind = "malformed"
    /\ resps[2].kind = "xml"
    /\ Len(fut) = 1
    /\ total_counter # EmptyCounter

(***************************************************************************)
(* Properties of the end of the process                                    *)
(***************************************************************************)
\* the step that ends the process
Exits == pc # "exited" /\ pc' = "exited"

\* C12: the process ends abnormally (with a non-zero exit status) exactly when
\* the writing of the report fails; it never ends before the writing of the
\* report was reached, whatever the sitemaps, the page fetches and the units did.
C12_OnlyWriteFailureIsFatal ==
    [][Exits =>
          /\ pc \in {"write", "input"}
          /\ exit_code' # 0 <=> pc = "write"]_vars

(***************************************************************************)
(* Termination of the crawl.  main runs while it can take a step (the      *)
(* return of input() is left to the user), a free worker takes the next    *)
(* future of the queue, and a running process_url ends: each request ends  *)
(* with a response, an error or the timeout of 10 seconds.                 *)
(***************************************************************************)
MainRuns ==
    \/ ReadSitemap
    \/ Submit
    \/ \E i \in Units : NextCompleted(i)
    \/ UpdateItem
    \/ UpdateDone
    \/ Progress
    \/ LoopExit
    \/ WriteReport

Fairness ==
    /\ WF_vars(MainRuns)
    /\ WF_vars(\E i \in Units : Start(i))
    /\ WF_vars(\E i \in Units : Finish(i))

SpecLive == Init /\ [][Next]_vars /\ Fairness

\* C13: the crawl runs to completion: main eventually is at the writing of the
\* report with every submitted unit finished, consumed and reported, and the
\* writing eventually takes place; a unit that fails or raises does not end
\* the run before.
C13_CrawlCompletes ==
    /\ <>(/\ pc = "write"
          /\ Len(fut) = Len(all_urls)
          /\ Finished = Units
          /\ YieldedSet = Units
          /\ Len(log) = total)
    /\ <>(pc \in {"input", "exited"})

\* main is at the report after a crawl in which a fetch failed and a unit raised
C13_Witness ==
    /\ pc = "write"
    /\ Len(fut) = 3
    /\ \E i \in Units : fut[i].result.exc
    /\ \E i \in Units : fut[i].resp.kind = "error"
    /\ YieldedSet = Units

(***************************************************************************)
(* Properties of the crawl of a list with repeated URLs                    *)
(***************************************************************************)
Occurrences(u, seq) == Cardinality({k \in 1..Len(seq) : seq[k] = u})

UnitsOf(u) == {i \in Units : fut[i].url = u}

LinesOf(u) == {k \in 1..Len(log) : log[k].url = u}

\* every unit of the URL u holds the same result
SameResults(u) == \A i, j \in UnitsOf(u) : fut[i].result = fut[j].result

\* C14: the URL list keeps every occurrence of a URL the sitemaps yield, and
\* a URL that occurs k times in it has k units; after the loop each of them
\* was consumed once and has one progress line, and the global WordCount
\* holds the counts of all k of them: k times the counts of the page when
\* the k units returned the same counts.
C14_NoDeduplication ==
    /\ all_urls = UrlsOfParsed(resps, Len(resps))
    /\ pc # "sitemaps" =>
          \A k \in 1..Len(all_urls) :
             Cardinality(UnitsOf(all_urls[k])) = Occurrences(all_urls[k], all_urls)
    /\ AfterLoop =>
          /\ \A k, l \in 1..Len(yielded) : yielded[k] = yielded[l] => k = l
          /\ YieldedSet = Units
          /\ \A k \in 1..Len(all_urls) :
                LET u == all_urls[k]
                IN  /\ Cardinality(LinesOf(u)) = Occurrences(u, all_urls)
                    /\ SameResults(u) =>
                          \A w \in Words :
                             SumOfResults(w, UnitsOf(u), Len(fut))
                                = Occurrences(u, all_urls)
                                     * CounterGet(fut[k].result.value, w)
          /\ \A w \in Words :
                CounterGet(total_counter, w) = SumOfResults(w, ReturnedUnits, Len(fut))

\* a URL that is twice in the first sitemap and once in the second was
\* crawled three times
C14_Witness ==
    /\ pc = "write"
    /\ all_urls = << << "a" >>, << "a" >>, << "a" >> >>
    /\ Len(resps[1].elems) = 2
    /\ Len(log) = 3
    /\ CounterGet(total_counter, << "B", "a", "b" >>) = 3

(***************************************************************************)
(* Properties of the crawl of an empty list                                *)
(***************************************************************************)
NoUrls == pc # "sitemaps" /\ all_urls = << >>

\* C15: when the sitemaps yield no URL, no unit is submitted, the loop body
\* is never entered (no progress line, no division by total), nothing is
\* raised, and main goes from as_completed to the writing of the report,
\* which has no line.
C15_EmptyCrawl ==
    /\ [](NoUrls =>
             /\ total = 0
             /\ fut = << >>
             /\ yielded = << >>
             /\ idx = 0
             /\ log = << >>
             /\ total_counter = EmptyCounter
             /\ out_file = << >>
             /\ pc \in {"as_completed", "write", "input", "exited"}
             /\ pc \in {"as_completed", "write", "input"} => exit_code = -1)
    /\ [](pc = "progress" => total > 0)
    /\ [][NoUrls /\ pc = "as_completed" => pc' = "write"]_vars
    /\ (NoUrls /\ pc = "as_completed") ~> (NoUrls /\ pc = "write")
    /\ (NoUrls /\ pc = "write") ~> (NoUrls /\ pc \in {"input", "exited"})

\* both sitemaps failed and the empty report was written
C15_Witness ==
    /\ pc = "input"
    /\ resps[1].kind = "error"
    /\ resps[2].kind = "malformed"
    /\ all_urls = << >>
    /\ out_file = << >>
    /\ log = << >>

(***************************************************************************)
(* Properties of the global WordCount during the crawl                     *)
(***************************************************************************)
\* the units the progress lines written so far are about
ReportedUnits == {yielded[k] : k \in 1..Len(log)}

\* C16: when the progress line of count k is written, and until main takes
\* the next future, the global WordCount holds for every word the sum of its
\* counts in the results of exactly the k units reported so far, a unit that
\* raised counting as empty; no step of the crawl lowers the count of a word.
C16_GlobalFollowsProgress ==
    /\ []((pc = "as_completed" \/ AfterLoop) =>
             /\ Cardinality(ReportedUnits) = Len(log)
             /\ Len(log) = idx
             /\ \A w \in Words :
                   CounterGet(total_counter, w)
                      = SumOfResults(w, ReportedUnits \cap ReturnedUnits, Len(fut)))
    /\ [][\A w \in CounterKeys(total_counter) :
             CounterGet(total_counter', w) >= CounterGet(total_counter, w)]_vars

\* two of three units are reported, one of them raised, and a result that is
\* not yet taken waits with counts of its own
C16_Witness ==
    /\ pc = "as_completed"
    /\ Len(fut) = 3
    /\ Len(log) = 2
    /\ \E i \in ReportedUnits : fut[i].result.exc
    /\ \E i \in Finished \ YieldedSet : fut[i].result.value # EmptyCounter
    /\ total_counter # EmptyCounter
====
